---- MODULE Spec2Model ----
(***************************************************************************)
(* HACCP La Pause: the App component of src/App.tsx (the second, complete  *)
(* variant, lines 198-770), its ReceptionView and the label extraction     *)
(* adapter of src/services/geminiService.ts, as a state machine.           *)
(*                                                                         *)
(* Time is counted in hours since the UTC midnight of day 0.  A date       *)
(* string "YYYY-MM-DD" is the tuple <<d>> of its day number, the empty     *)
(* string is <<>>, an ISO timestamp is <<d, h>> (toISOString is UTC), and  *)
(* an optional field that is undefined (or null) is <<>>.                  *)
(***************************************************************************)
EXTENDS Integers, Sequences, FiniteSets, TLC

VARIABLES
    items,         \* App: useState<InventoryItem[]>
    activeTab,     \* App: useState<AppTab>
    isProcessing,  \* App: useState(false)
    settings,      \* App: useState<AlertSettings>
    storage,       \* localStorage: the blobs under STORAGE_KEY and SETTINGS_KEY
    formData,      \* ReceptionView: useState<Partial<InventoryItem>>
    tempImage,     \* ReceptionView: useState<string | null>
    captures,      \* handleFileChange calls whose reader or extraction is pending
    now,           \* the device clock (new Date()), in hours
    tz,            \* the device's time zone
    nextId,        \* the next identifier crypto.randomUUID() hands out
    searchTerm,    \* App: useState('')
    urgentItems,   \* App: the value useMemo holds
    permission,    \* Notification.permission, and whether the browser is asking
    boot,          \* where the start of the page is: the mount, its effects
    last           \* the handler that ran last, with its arguments

vars == <<items, activeTab, isProcessing, settings, storage, formData,
          tempImage, captures, now, tz, nextId, searchTerm, urgentItems,
          permission, boot, last>>

(***************************************************************************)
(* Bounds of the model.                                                    *)
(***************************************************************************)
MaxItems == 2      \* identifiers handed out in a run
MaxOpTime == 1     \* last clock hour of the lifecycle runs
MaxDay == 3        \* last day of the classifier runs and of the expiry dates
DstDay == 2        \* the day whose 01:00 UTC is the daylight-saving switch
MaxCaptures == 2   \* handleFileChange calls pending at once

(***************************************************************************)
(* Constants of the program.                                               *)
(***************************************************************************)
HoursPerDay == 24
DefaultThreshold == 3
DefaultTemp == 4

\* useState<AlertSettings>({expiryThresholdDays: 3, enableBrowserNotifications: false})
DefaultSettings == [expiryThresholdDays |-> DefaultThreshold,
                    enableBrowserNotifications |-> FALSE]

Undefined == <<>>
EmptyString == <<>>

Statuses == {"sealed", "opened", "finished", "discarded"}
Tabs == {"inventory", "reception", "history", "settings"}

(***************************************************************************)
(* The clock and the time zone.  A zone has one offset before the instant  *)
(* `at` and one from it on; a zone without daylight saving has both equal. *)
(***************************************************************************)
Zones ==
    { [name |-> "west",   before |-> -5, after |-> -5, at |-> 0],
      [name |-> "spring", before |-> 1,  after |-> 2,  at |-> HoursPerDay * DstDay + 1],
      [name |-> "autumn", before |-> 2,  after |-> 1,  at |-> HoursPerDay * DstDay + 1] }

Offset(z, t) == IF t < z.at THEN z.before ELSE z.after

\* The calendar day the instant t falls on in zone z.
LocalDay(z, t) == (t + Offset(z, t)) \div HoursPerDay

SetUTCHoursZero(z, t) == HoursPerDay * (t \div HoursPerDay)

\* Date.prototype.setHours(0,0,0,0): the instant of local midnight of t's local day.
SetHoursZero(z, t) ==
    LET target == HoursPerDay * LocalDay(z, t)
    IN  CHOOSE m \in {target - z.before, target - z.after} : m + Offset(z, m) = target

\* new Date("YYYY-MM-DD"): a date-only string is parsed as UTC midnight.
ParseDate(dateStr) == HoursPerDay * dateStr[1]

\* new Date().toISOString(): the UTC date and time of the instant.
ToISOString(t) == <<t \div HoursPerDay, t % HoursPerDay>>

\* iso.split('T')[0]: the date part of an ISO timestamp.
DatePart(iso) == <<iso[1]>>

\* Math.ceil(x / (1000 * 3600 * 24)) for x in hours; -0 compares as 0.
CeilDays(x) == -((-x) \div HoursPerDay)

isExpiredReversed(dateStr, clock) ==
    SetHoursZero(tz, ParseDate(dateStr)) > SetHoursZero(tz, clock)

\* isExpired(dateStr), with `clock` the value new Date() returns.
isExpired(dateStr, clock) ==
    SetHoursZero(tz, ParseDate(dateStr)) < SetHoursZero(tz, clock)

\* isUrgent(dateStr, threshold), with `clock` the value new Date() returns.
isUrgent(dateStr, threshold, clock) ==
    LET diffDays == CeilDays(SetHoursZero(tz, ParseDate(dateStr)) - SetHoursZero(tz, clock))
    IN  diffDays <= threshold /\ diffDays >= 0

\* InventoryView: expired ? red : urgent ? orange : neutral.
Classify(item, clock) ==
    IF isExpired(item.expiryDate, clock) THEN "expired"
    ELSE IF isUrgent(item.expiryDate, settings.expiryThresholdDays, clock) THEN "urgent"
    ELSE "normal"

(***************************************************************************)
(* Persistence.  JSON.stringify drops the keys whose value is undefined;   *)
(* JSON.parse gives back an object without them.                           *)
(***************************************************************************)
ItemKeys == {"id", "name", "category", "expiryDate", "receptionDate", "receptionTemp",
             "lotNumber", "status", "imageUrl", "openedAt", "finishedAt"}
OptionalKeys == {"imageUrl", "openedAt", "finishedAt"}

StringifyItemWithoutTimestamps(item) ==
    [k \in {key \in ItemKeys : key \notin OptionalKeys} |-> item[k]]

StringifyItem(item) ==
    [k \in {key \in ItemKeys : key \notin OptionalKeys \/ item[key] # Undefined} |-> item[k]]

Stringify(list) == [i \in 1..Len(list) |-> StringifyItem(list[i])]

\* JSON.parse of an item: a key the text does not have reads as undefined.
ParseItem(object) ==
    [k \in ItemKeys |-> IF k \in DOMAIN object THEN object[k] ELSE Undefined]

Parse(json) == [i \in 1..Len(json) |-> ParseItem(json[i])]

\* What localStorage holds under a key: nothing (getItem gives null), the JSON text
\* of a value, or a text JSON.parse cannot read.
NullBlob == [text |-> "null", value |-> <<>>]
GarbageBlob == [text |-> "garbage", value |-> <<>>]
Blob(value) == [text |-> "json", value |-> <<value>>]

SaveItemsOnlyAtMount(list) == storage

\* useEffect(() => localStorage.setItem(STORAGE_KEY, JSON.stringify(items)), [items])
SaveItems(list) == [storage EXCEPT !.items = Blob(Stringify(list))]

\* useEffect(() => localStorage.setItem(SETTINGS_KEY, JSON.stringify(settings)), [settings])
SaveSettings(s) == [storage EXCEPT !.settings = Blob(s)]

(***************************************************************************)
(* The alert badge and the notification.                                   *)
(***************************************************************************)
\* The function of useMemo(..., [items, settings.expiryThresholdDays]), with `clock`
\* the value new Date() returns.  new Date("") is an invalid date, its getTime()
\* is NaN, and NaN <= threshold is false.
ComputeUrgentItems(list, threshold, clock) ==
    SelectSeq(list, LAMBDA item :
        /\ item.status \notin {"finished", "discarded"}
        /\ item.expiryDate # EmptyString
        /\ CeilDays(ParseDate(item.expiryDate) - clock) <= threshold)

\* The body of the notification effect: the count in the notification it raises,
\* or <<>> when it raises none.
NotificationEffect(urgent, s, clock) ==
    LET urgentCount == Len(SelectSeq(urgent, LAMBDA i : isExpired(i.expiryDate, clock)))
    IN  IF /\ s.enableBrowserNotifications
           /\ permission = "granted"
           /\ Len(urgent) > 0
           /\ urgentCount > 0
        THEN <<urgentCount>>
        ELSE <<>>

\* The effect runs after a render in which urgentItems.length or
\* settings.enableBrowserNotifications is not what it was.
Notified(urgentAfter, settingsAfter) ==
    IF \/ Len(urgentAfter) # Len(urgentItems)
       \/ settingsAfter.enableBrowserNotifications # settings.enableBrowserNotifications
    THEN NotificationEffect(urgentAfter, settingsAfter, now)
    ELSE <<>>

Noted(record, urgentAfter, settingsAfter) ==
    [record EXCEPT !.notice = Notified(urgentAfter, settingsAfter)]

(***************************************************************************)
(* ReceptionView is rendered only while the reception tab is active: its   *)
(* state is created when the tab is entered and is gone when it is left.   *)
(***************************************************************************)
NoForm == [name |-> "", category |-> "", expiryDate |-> EmptyString,
           receptionDate |-> EmptyString, receptionTemp |-> <<>>, lotNumber |-> ""]

InitialForm ==
    [name |-> "", category |-> "Autres",
     expiryDate |-> DatePart(ToISOString(now)),
     receptionDate |-> DatePart(ToISOString(now)),
     receptionTemp |-> <<DefaultTemp>>, lotNumber |-> ""]

Mounted == activeTab = "reception"

FormAfterTab(tab) ==
    IF tab = activeTab THEN formData
    ELSE IF tab = "reception" THEN InitialForm
    ELSE NoForm

ImageAfterTab(tab) == IF tab = activeTab THEN tempImage ELSE Undefined

\* A pending capture of a ReceptionView that was unmounted no longer has a form.
CapturesAfterTab(tab) ==
    IF tab = activeTab \/ activeTab # "reception" THEN captures
    ELSE [i \in 1..Len(captures) |-> [captures[i] EXCEPT !.live = FALSE]]

\* The status of the item `id` ("" when the collection has none).
StatusOf(id) ==
    IF \E i \in 1..Len(items) : items[i].id = id
    THEN items[CHOOSE i \in 1..Len(items) : items[i].id = id].status
    ELSE ""

\* last: the handler, the item it was called for and that item's status before
\* the call, the handler's other argument, and the extraction result it received.
\* `form` is the form an extraction result was merged into, and `notice` the count
\* in the notification the step raised (<<>>: none).  `before` keeps, for each
\* identifier, the status its item had when updateItemStatus took it out of stock
\* (to finished or discarded), until the item is put back or deleted.
NoArg == [op |-> "none", id |-> 0, was |-> "", arg |-> "", res |-> <<>>,
          form |-> NoForm, notice |-> <<>>, before |-> [i \in 1..MaxItems |-> ""]]

BeforeAfter(op, id, arg) ==
    IF id \notin 1..MaxItems \/ StatusOf(id) = "" THEN last.before
    ELSE IF op = "updateItemStatus"
         THEN IF arg \notin {"finished", "discarded"}
                   THEN [last.before EXCEPT ![id] = ""]
              ELSE IF StatusOf(id) \in {"finished", "discarded"} THEN last.before
              ELSE [last.before EXCEPT ![id] = StatusOf(id)]
    ELSE IF op = "restoreItem" \/ (op = "deleteItem" /\ arg = "confirmed")
         THEN [last.before EXCEPT ![id] = ""]
    ELSE last.before

Did(op, id, arg, res) ==
    [op |-> op, id |-> id, was |-> StatusOf(id), arg |-> arg, res |-> res,
     form |-> NoForm, notice |-> <<>>, before |-> BeforeAfter(op, id, arg)]

\* The same for a step of a capture: `id` is 1 when the ReceptionView that started
\* the capture is still mounted and 0 when it is not.
DidCapture(op, capture, arg, res) ==
    [op |-> op, id |-> IF capture.live THEN 1 ELSE 0, was |-> "", arg |-> arg, res |-> res,
     form |-> IF op = "extractionResponse" /\ capture.live THEN formData ELSE NoForm,
     notice |-> <<>>, before |-> last.before]

Init ==
    /\ items = <<>>
    /\ activeTab = "inventory"
    /\ isProcessing = FALSE
    /\ settings = DefaultSettings
    /\ storage = [items |-> Blob(Stringify(items)), settings |-> Blob(settings)]
    /\ formData = NoForm
    /\ tempImage = Undefined
    /\ captures = <<>>
    /\ now = 0
    /\ tz \in Zones
    /\ nextId = 1
    /\ searchTerm = ""
    /\ urgentItems = <<>>
    /\ permission = "default"
    /\ boot = "running"
    /\ last = NoArg

(***************************************************************************)
(* The item handlers of App.                                               *)
(***************************************************************************)
\* handleSubmit's argument to onAdd.
NewItem(form, image, id) ==
    [id |-> id,
     name |-> form.name,
     category |-> form.category,
     expiryDate |-> form.expiryDate,
     receptionDate |-> IF form.receptionDate # EmptyString THEN form.receptionDate
                       ELSE ToISOString(now),
     receptionTemp |-> IF form.receptionTemp \notin {<<>>, <<0>>} THEN form.receptionTemp[1]
                       ELSE DefaultTemp,
     lotNumber |-> form.lotNumber,
     status |-> "sealed",
     imageUrl |-> image,
     openedAt |-> Undefined,
     finishedAt |-> Undefined]

UpdatedItemKeepsOpenedAt(item, id, newStatus) ==
    IF item.id = id
    THEN IF newStatus = "opened"
              THEN [item EXCEPT !.status = newStatus, !.openedAt = ToISOString(now)]
         ELSE IF newStatus \in {"finished", "discarded"}
              THEN [item EXCEPT !.status = newStatus, !.finishedAt = ToISOString(now)]
         ELSE [item EXCEPT !.status = newStatus]
    ELSE item

UpdatedItemOfAnyId(item, id, newStatus) ==
    IF newStatus = "opened"
         THEN [item EXCEPT !.status = newStatus, !.openedAt = ToISOString(now)]
    ELSE IF newStatus = "sealed"
         THEN [item EXCEPT !.status = newStatus, !.openedAt = Undefined]
    ELSE [item EXCEPT !.status = newStatus, !.finishedAt = ToISOString(now)]

\* updateItemStatus: the function mapped over the collection.
UpdatedItem(item, id, newStatus) ==
    IF item.id = id
    THEN IF newStatus = "opened"
              THEN [item EXCEPT !.status = newStatus, !.openedAt = ToISOString(now)]
         ELSE IF newStatus = "sealed"
              THEN [item EXCEPT !.status = newStatus, !.openedAt = Undefined]
         ELSE [item EXCEPT !.status = newStatus, !.finishedAt = ToISOString(now)]
    ELSE item

RestoredItemKeepsFinishedAt(item, id) ==
    IF item.id = id
    THEN [item EXCEPT !.status = IF item.openedAt # Undefined THEN "opened" ELSE "sealed"]
    ELSE item

RestoredItemAlwaysSealed(item, id) ==
    IF item.id = id
    THEN [item EXCEPT !.status = "sealed", !.finishedAt = Undefined]
    ELSE item

\* restoreItem: the function mapped over the collection.
RestoredItem(item, id) ==
    IF item.id = id
    THEN [item EXCEPT !.status = IF item.openedAt # Undefined THEN "opened" ELSE "sealed",
                      !.finishedAt = Undefined]
    ELSE item

\* setItems(prev => [item, ...prev]); setActiveTab(INVENTORY); then the save effect.
addItem(item) ==
    /\ items' = <<item>> \o items
    /\ activeTab' = "inventory"
    /\ formData' = FormAfterTab("inventory")
    /\ tempImage' = ImageAfterTab("inventory")
    /\ captures' = CapturesAfterTab("inventory")
    /\ storage' = SaveItems(items')
    /\ urgentItems' = ComputeUrgentItems(items', settings.expiryThresholdDays, now)

updateItemStatus(id, newStatus) ==
    /\ items' = [i \in 1..Len(items) |-> UpdatedItem(items[i], id, newStatus)]
    /\ storage' = SaveItems(items')
    /\ urgentItems' = ComputeUrgentItems(items', settings.expiryThresholdDays, now)
    /\ last' = Noted(Did("updateItemStatus", id, newStatus, <<>>), urgentItems', settings)
    /\ UNCHANGED <<activeTab, isProcessing, settings, formData, tempImage, captures,
                   now, tz, searchTerm, permission, boot, nextId>>

restoreItem(id) ==
    /\ items' = [i \in 1..Len(items) |-> RestoredItem(items[i], id)]
    /\ activeTab' = "inventory"
    /\ formData' = FormAfterTab("inventory")
    /\ tempImage' = ImageAfterTab("inventory")
    /\ captures' = CapturesAfterTab("inventory")
    /\ storage' = SaveItems(items')
    /\ urgentItems' = ComputeUrgentItems(items', settings.expiryThresholdDays, now)
    /\ last' = Noted(Did("restoreItem", id, "", <<>>), urgentItems', settings)
    /\ UNCHANGED <<isProcessing, settings, now, tz, searchTerm, permission, boot,
                   nextId>>

\* The clock advances by an hour.
Tick(limit) ==
    /\ now < limit
    /\ now' = now + 1
    /\ last' = Did("tick", 0, "", <<>>)
    /\ UNCHANGED <<items, urgentItems, activeTab, isProcessing, settings, storage,
                   formData, tempImage, captures, tz, searchTerm, permission, boot,
                   nextId>>

\* onAdd called with the item handleSubmit builds from one of `forms`.
AddSubmitted(forms) ==
    /\ nextId <= MaxItems
    /\ \E form \in forms : addItem(NewItem(form, Undefined, nextId))
    /\ nextId' = nextId + 1
    /\ last' = Noted(Did("addItem", nextId, "", <<>>), urgentItems', settings)
    /\ UNCHANGED <<isProcessing, settings, now, tz, searchTerm, permission, boot>>

(***************************************************************************)
(* Navigation.                                                             *)
(***************************************************************************)
SetActiveTab(tab) ==
    /\ activeTab' = tab
    /\ formData' = FormAfterTab(tab)
    /\ tempImage' = ImageAfterTab(tab)
    /\ captures' = CapturesAfterTab(tab)
    /\ last' = Did("setActiveTab", 0, tab, <<>>)
    /\ UNCHANGED <<items, urgentItems, isProcessing, settings, storage, now, tz,
                   searchTerm, permission, boot, nextId>>

(***************************************************************************)
(* ReceptionView: the form.  A number field holds <<n>>, or <<>> when      *)
(* parseFloat could not read the text (NaN).                               *)
(***************************************************************************)
FormFields == {"name", "category", "expiryDate", "receptionDate", "receptionTemp",
               "lotNumber"}

\* onChange of a field: setFormData({...formData, [field]: value})
FormChange(field, value) ==
    /\ Mounted
    /\ formData' = [formData EXCEPT ![field] = value]
    /\ last' = Did("formChange", 0, field, <<>>)
    /\ UNCHANGED <<items, urgentItems, activeTab, isProcessing, settings, storage,
                   tempImage, captures, now, tz, searchTerm, permission, boot, nextId>>

ValidNameOnly(form) == form.name # ""

\* !formData.name || !formData.expiryDate, negated
Valid(form) == form.name # "" /\ form.expiryDate # EmptyString

handleSubmit ==
    /\ Mounted
    /\ IF Valid(formData)
       THEN /\ nextId <= MaxItems
            /\ addItem(NewItem(formData, tempImage, nextId))
            /\ nextId' = nextId + 1
            /\ last' = Noted(Did("handleSubmit", nextId, "added", <<>>), urgentItems',
                             settings)
       ELSE /\ last' = Did("handleSubmit", 0, "rejected", <<>>)
            /\ UNCHANGED <<items, urgentItems, activeTab, storage, formData, tempImage,
                           captures, nextId>>
    /\ UNCHANGED <<isProcessing, settings, now, tz, searchTerm, permission, boot>>

(***************************************************************************)
(* The label extraction adapter.  What the service does with a request is  *)
(* an outcome: the call fails (network or service), the response has no    *)
(* text, its text is not JSON, or its text is the JSON of a record in      *)
(* which a field that is not populated is "" (a date: <<>>).               *)
(***************************************************************************)
FailureKinds == {"networkError", "serviceError", "emptyText", "badJson"}

Results ==
    { [name |-> n, category |-> c, lotNumber |-> l, expiryDate |-> e] :
        n \in {"", "Yaourt"}, c \in {"", "Laitages"}, l \in {"", "L9"},
        e \in {EmptyString, <<MaxDay>>} }

Outcomes ==
    { [kind |-> k, value |-> <<>>] : k \in FailureKinds }
      \cup { [kind |-> "json", value |-> <<r>>] : r \in Results }

\* The body of the try block: what it returns, or that it throws.
TryExtract(outcome) ==
    CASE outcome.kind \in {"networkError", "serviceError"} ->
             [threw |-> TRUE, value |-> <<>>]
      [] outcome.kind = "emptyText" -> [threw |-> FALSE, value |-> <<>>]
      [] outcome.kind = "badJson" -> [threw |-> TRUE, value |-> <<>>]
      [] OTHER -> [threw |-> FALSE, value |-> outcome.value]

extractProductInfoRethrows(outcome) ==
    [rejected |-> TryExtract(outcome).threw, value |-> TryExtract(outcome).value]

\* extractProductInfo: the promise it returns; catch (error) { return null }
extractProductInfo(outcome) ==
    IF TryExtract(outcome).threw
    THEN [rejected |-> FALSE, value |-> <<>>]
    ELSE [rejected |-> FALSE, value |-> TryExtract(outcome).value]

MergeOverwriting(prev, result) ==
    [prev EXCEPT !.name = result.name,
                 !.lotNumber = result.lotNumber,
                 !.expiryDate = result.expiryDate]

\* setFormData(prev => ({...prev, name: result.name || prev.name, ...}))
Merge(prev, result) ==
    [prev EXCEPT !.name = IF result.name # "" THEN result.name ELSE @,
                 !.category = IF result.category # "" THEN result.category ELSE @,
                 !.lotNumber = IF result.lotNumber # "" THEN result.lotNumber ELSE @,
                 !.expiryDate = IF result.expiryDate # EmptyString THEN result.expiryDate
                                ELSE @]

Images == {"imgA", "imgB"}

Remove(seq, i) == [j \in 1..(Len(seq) - 1) |-> IF j < i THEN seq[j] ELSE seq[j + 1]]

\* handleFileChange up to reader.readAsDataURL(file).
handleFileChange(hasFile, img) ==
    /\ Mounted
    /\ IF hasFile
       THEN /\ Len(captures) < MaxCaptures
            /\ isProcessing' = TRUE
            /\ captures' = Append(captures, [stage |-> "reading", img |-> img, live |-> TRUE])
            /\ last' = Did("handleFileChange", 0, img, <<>>)
       ELSE /\ last' = Did("handleFileChange", 0, "", <<>>)
            /\ UNCHANGED <<isProcessing, captures>>
    /\ UNCHANGED <<items, urgentItems, activeTab, settings, storage, formData, tempImage,
                   now, tz, searchTerm, permission, boot, nextId>>

\* reader.onloadend up to the await: with the file read, or with reader.result null,
\* on which base64.split throws.
ReaderLoadEnd(i, ok) ==
    /\ i \in 1..Len(captures)
    /\ captures[i].stage = "reading"
    /\ IF ok
       THEN /\ tempImage' = IF captures[i].live THEN <<captures[i].img>> ELSE tempImage
            /\ captures' = [captures EXCEPT ![i].stage = "extracting"]
            /\ last' = DidCapture("readerLoadEnd", captures[i], "read", <<>>)
       ELSE /\ captures' = Remove(captures, i)
            /\ last' = DidCapture("readerLoadEnd", captures[i], "threw", <<>>)
            /\ UNCHANGED tempImage
    /\ UNCHANGED <<items, urgentItems, activeTab, isProcessing, settings, storage,
                   formData, now, tz, searchTerm, permission, boot, nextId>>

\* reader.onloadend from the await on: the extraction settles.
ExtractionResponse(i, outcome) ==
    /\ i \in 1..Len(captures)
    /\ captures[i].stage = "extracting"
    /\ captures' = Remove(captures, i)
    /\ LET result == extractProductInfo(outcome)
       IN  IF result.rejected
           THEN /\ last' = DidCapture("extractionRejected", captures[i], outcome.kind, <<>>)
                /\ UNCHANGED <<formData, isProcessing>>
           ELSE /\ formData' = IF result.value # <<>> /\ captures[i].live
                                THEN Merge(formData, result.value[1])
                                ELSE formData
                /\ isProcessing' = FALSE
                /\ last' = DidCapture("extractionResponse", captures[i], outcome.kind,
                                      result.value)
    /\ UNCHANGED <<items, urgentItems, activeTab, settings, storage, tempImage, now, tz,
                   searchTerm, permission, boot, nextId>>

(***************************************************************************)
(* SettingsView: the threshold field.  The typed text is a number <<n>> or *)
(* something parseInt cannot read, <<>>.                                   *)
(***************************************************************************)
ThresholdInputs == {<<>>, <<-1>>, <<0>>, <<1>>, <<3>>}

\* parseInt(e.target.value) || 0
ParseIntOrZero(text) == IF text = <<>> THEN 0 ELSE text[1]

SetThreshold(text) ==
    /\ activeTab = "settings"
    /\ settings' = [settings EXCEPT !.expiryThresholdDays = ParseIntOrZero(text)]
    /\ storage' = SaveSettings(settings')
    /\ urgentItems' = ComputeUrgentItems(items, settings'.expiryThresholdDays, now)
    /\ last' = Noted(Did("setThreshold", 0, "", text), urgentItems', settings')
    /\ UNCHANGED <<items, activeTab, isProcessing, formData, tempImage, captures,
                   now, tz, searchTerm, permission, boot, nextId>>

\* Notification.requestPermission(): the browser asks when the permission is
\* 'default', which it stays until the user answers.
RequestPermission(p) == IF p = "default" THEN "asking" ELSE p

\* The button: newState = !enable; requestPermission() unless granted; setSettings.
ToggleNotifications ==
    /\ activeTab = "settings"
    /\ LET newState == ~settings.enableBrowserNotifications
       IN  /\ permission' = IF newState /\ permission # "granted"
                            THEN RequestPermission(permission)
                            ELSE permission
           /\ settings' = [settings EXCEPT !.enableBrowserNotifications = newState]
    /\ storage' = SaveSettings(settings')
    /\ last' = Noted(Did("toggleNotifications", 0, "", <<>>), urgentItems, settings')
    /\ UNCHANGED <<items, urgentItems, activeTab, isProcessing, formData, tempImage,
                   captures, now, tz, searchTerm, boot, nextId>>

\* The user answers the browser's question, or closes it without answering.
AnswerPermission(answer) ==
    /\ permission = "asking"
    /\ permission' = answer
    /\ last' = Did("answerPermission", 0, answer, <<>>)
    /\ UNCHANGED <<items, urgentItems, activeTab, isProcessing, settings, storage,
                   formData, tempImage, captures, now, tz, searchTerm, boot, nextId>>

(***************************************************************************)
(* Deletion, and what InventoryView and HistoryView offer.                 *)
(***************************************************************************)
DeletedKeepsMatching(list, id) == SelectSeq(list, LAMBDA item : item.id = id)

\* prev.filter(item => item.id !== id)
Deleted(list, id) == SelectSeq(list, LAMBDA item : item.id # id)

\* deleteItem: confirm(...) as the user answers it, then setItems and the effects.
deleteItem(id, confirmed) ==
    /\ items' = IF confirmed THEN Deleted(items, id) ELSE items
    /\ storage' = IF confirmed THEN SaveItems(items') ELSE storage
    /\ urgentItems' = IF confirmed
                      THEN ComputeUrgentItems(items', settings.expiryThresholdDays, now)
                      ELSE urgentItems
    /\ last' = Noted(Did("deleteItem", id, IF confirmed THEN "confirmed" ELSE "declined",
                         <<>>), urgentItems', settings)
    /\ UNCHANGED <<activeTab, isProcessing, settings, formData, tempImage, captures,
                   now, tz, searchTerm, permission, boot, nextId>>

\* toLowerCase() of the names and search terms of the model.
ToLowerCase(text) ==
    CASE text = "Lait" -> "lait"
      [] text = "LAI" -> "lai"
      [] OTHER -> text

\* String.prototype.includes on the lower-cased names and terms of the model.
Includes(text, part) == part = "" \/ part = text \/ <<text, part>> \in {<<"lait", "lai">>}

SearchTerms == {"", "LAI", "riz"}

\* onChange of the search field of InventoryView.
SetSearchTerm(term) ==
    /\ activeTab = "inventory"
    /\ searchTerm' = term
    /\ last' = Did("setSearchTerm", 0, term, <<>>)
    /\ UNCHANGED <<items, urgentItems, activeTab, isProcessing, settings, storage,
                   formData, tempImage, captures, now, tz, permission, boot, nextId>>

\* new Date(text).getTime() of a date string or an ISO timestamp, in hours.
GetTime(text) == IF Len(text) = 1 THEN ParseDate(text) ELSE HoursPerDay * text[1] + text[2]

\* Array.prototype.sort with the comparator key(a) - key(b): stable, ascending.
SortedBy(list, key) ==
    LET n == Len(list)
        Rank(i) == 1 + Cardinality({j \in 1..n : \/ key[j] < key[i]
                                                  \/ (key[j] = key[i] /\ j < i)})
    IN  [r \in 1..n |-> list[CHOOSE i \in 1..n : Rank(i) = r]]

FilterAnyStatus(list) ==
    SelectSeq(list, LAMBDA item : Includes(ToLowerCase(item.name), ToLowerCase(searchTerm)))

\* The filter of filteredItems.
FilterInStock(list) ==
    SelectSeq(list, LAMBDA item :
        /\ item.status # "finished"
        /\ item.status # "discarded"
        /\ Includes(ToLowerCase(item.name), ToLowerCase(searchTerm)))

filteredItems ==
    LET shown == FilterInStock(items)
    IN  SortedBy(shown, [i \in 1..Len(shown) |-> GetTime(shown[i].expiryDate)])

historyItems ==
    LET shown == SelectSeq(items, LAMBDA item : item.status = "finished"
                                                 \/ item.status = "discarded")
        When(item) == IF item.finishedAt # Undefined THEN item.finishedAt
                      ELSE item.receptionDate
    IN  SortedBy(shown, [i \in 1..Len(shown) |-> -GetTime(When(shown[i]))])

\* The status buttons InventoryView renders on the card of an item.
InventoryButtons(item) ==
    IF item.status = "sealed" THEN {"opened", "discarded"}
    ELSE {"finished", "sealed", "discarded"}

\* A status button of the i-th card of InventoryView is pressed.
InventoryPress(i, newStatus) ==
    /\ activeTab = "inventory"
    /\ i \in 1..Len(filteredItems)
    /\ newStatus \in InventoryButtons(filteredItems[i])
    /\ updateItemStatus(filteredItems[i].id, newStatus)

\* "Restaurer" of the i-th row of HistoryView is pressed.
HistoryRestore(i) ==
    /\ activeTab = "history"
    /\ i \in 1..Len(historyItems)
    /\ restoreItem(historyItems[i].id)

\* "Supprimer définitivement" of the i-th row of HistoryView is pressed.
HistoryDelete(i, confirmed) ==
    /\ activeTab = "history"
    /\ i \in 1..Len(historyItems)
    /\ deleteItem(historyItems[i].id, confirmed)

(***************************************************************************)
(* The start of the page.  The page is closed and opened again: the state  *)
(* of the components is gone, localStorage and the permission stay.  The   *)
(* first render is of the initial state; its effects run (the load, whose  *)
(* setItems and setSettings take effect with the next render, and the two  *)
(* saves of the initial state), then the state that was loaded is rendered *)
(* and the effects of that render run.                                     *)
(***************************************************************************)
Running == boot = "running"

\* The page is closed and opened again; `last` keeps how far the start had come
\* and the collection and the settings that were in memory, also through the steps
\* of the start.

Restart ==
    /\ boot' = "mounting"
    /\ items' = <<>>
    /\ activeTab' = "inventory"
    /\ isProcessing' = FALSE
    /\ settings' = DefaultSettings
    /\ formData' = NoForm
    /\ tempImage' = Undefined
    /\ captures' = <<>>
    /\ searchTerm' = ""
    /\ urgentItems' = <<>>
    /\ last' = Did("restart", 0, boot, <<items, settings>>)
    /\ UNCHANGED <<storage, now, tz, permission, nextId>>

\* Whether JSON.parse throws in the load effect: on the first blob or on the second.
LoadThrows ==
    storage.items.text = "garbage" \/ storage.settings.text = "garbage"

\* if (savedSettings) setSettings(JSON.parse(savedSettings))
LoadedSettings(blob) == IF blob.text = "json" THEN blob.value[1] ELSE DefaultSettings

\* if (savedItems) setItems(JSON.parse(savedItems))
LoadedItems(blob) == IF blob.text = "json" THEN Parse(blob.value[1]) ELSE <<>>

\* The effects of the first render.  An exception in the load effect is not caught:
\* the effects after it do not run and React takes the whole page down.
MountEffects ==
    /\ boot = "mounting"
    /\ IF LoadThrows
       THEN /\ boot' = "crashed"
            /\ last' = Did("mountEffects", 0, last.arg, last.res)
            /\ UNCHANGED <<items, settings, storage, permission>>
       ELSE /\ boot' = "loaded"
            /\ items' = LoadedItems(storage.items)
            /\ settings' = LoadedSettings(storage.settings)
            /\ permission' = IF /\ storage.settings.text = "json"
                                /\ settings'.enableBrowserNotifications
                             THEN RequestPermission(permission)
                             ELSE permission
            /\ storage' = [items |-> Blob(Stringify(<<>>)),
                           settings |-> Blob(DefaultSettings)]
            /\ last' = Did("mountEffects", 0, last.arg, last.res)
    /\ UNCHANGED <<urgentItems, activeTab, isProcessing, formData, tempImage, captures,
                   now, tz, searchTerm, nextId>>

\* The effects of the first render run a second time before the loaded state is
\* rendered, as they do when the root renders App inside React's StrictMode in a
\* development build: the load effect reads what the two saves of the first run
\* have just written, its setItems and setSettings come after those of the first
\* run, and the two saves write the initial state again.
MountEffectsAgain ==
    /\ boot = "loaded"
    /\ boot' = "reloaded"
    /\ items' = IF storage.items.text = "json"
                THEN LoadedItems(storage.items) ELSE items
    /\ settings' = IF storage.settings.text = "json"
                   THEN LoadedSettings(storage.settings) ELSE settings
    /\ permission' = IF /\ storage.settings.text = "json"
                        /\ LoadedSettings(storage.settings).enableBrowserNotifications
                     THEN RequestPermission(permission)
                     ELSE permission
    /\ storage' = [items |-> Blob(Stringify(<<>>)),
                   settings |-> Blob(DefaultSettings)]
    /\ last' = Did("mountEffectsAgain", 0, last.arg, last.res)
    /\ UNCHANGED <<urgentItems, activeTab, isProcessing, formData, tempImage, captures,
                   now, tz, searchTerm, nextId>>

\* The render of the loaded state, and its effects: the saves, the notification.
MountRender ==
    /\ boot \in {"loaded", "reloaded"}
    /\ boot' = "running"
    /\ storage' = [items |-> Blob(Stringify(items)), settings |-> Blob(settings)]
    /\ urgentItems' = ComputeUrgentItems(items, settings.expiryThresholdDays, now)
    /\ last' = [Did("mountRender", 0, last.arg, last.res) EXCEPT
                  !.notice = IF Len(urgentItems') > 0 \/ settings.enableBrowserNotifications
                             THEN NotificationEffect(urgentItems', settings, now)
                             ELSE <<>>]
    /\ UNCHANGED <<items, activeTab, isProcessing, settings, formData, tempImage,
                   captures, now, tz, searchTerm, permission, nextId>>

(***************************************************************************)
(* The lifecycle runs: the item handlers of App, called in any order with  *)
(* any argument, on items that handleSubmit created.                       *)
(***************************************************************************)
LifecycleForms == {[InitialForm EXCEPT !.name = "Lait"]}

InitLifecycle == Init /\ tz.name = "west"

NextLifecycle ==
    \/ AddSubmitted(LifecycleForms)
    \/ \E id \in 1..MaxItems, s \in Statuses : updateItemStatus(id, s)
    \/ \E id \in 1..MaxItems : restoreItem(id)
    \/ Tick(MaxOpTime)

SpecLifecycle == InitLifecycle /\ [][NextLifecycle]_vars

(***************************************************************************)
(* The classifier runs: one stocked item with any expiry date, in any time *)
(* zone, looked at as the clock advances and the threshold is changed.     *)
(***************************************************************************)
Days == 0..MaxDay

ClassifierForms == {[InitialForm EXCEPT !.name = "Lait", !.expiryDate = <<d>>] : d \in Days}

InitClassifier ==
    /\ now = 0
    /\ tz \in Zones
    /\ \E form \in ClassifierForms : items = <<NewItem(form, Undefined, 1)>>
    /\ activeTab = "settings"
    /\ isProcessing = FALSE
    /\ settings = DefaultSettings
    /\ storage = [items |-> Blob(Stringify(items)), settings |-> Blob(settings)]
    /\ formData = NoForm
    /\ tempImage = Undefined
    /\ captures = <<>>
    /\ nextId = 2
    /\ searchTerm = ""
    /\ urgentItems = ComputeUrgentItems(items, settings.expiryThresholdDays, now)
    /\ permission = "default"
    /\ boot = "running"
    /\ last = NoArg

NextClassifier ==
    \/ Tick(HoursPerDay * MaxDay + HoursPerDay - 1)
    \/ \E text \in ThresholdInputs : SetThreshold(text)

SpecClassifier == InitClassifier /\ [][NextClassifier]_vars

(***************************************************************************)
(* The submission runs: the form is filled in by hand and submitted.       *)
(***************************************************************************)
SubmitEdits ==
    { <<"name", "">>, <<"name", "Lait">>,
      <<"expiryDate", EmptyString>>, <<"expiryDate", <<1>>>>,
      <<"lotNumber", "L1">> }

NextSubmit ==
    \/ \E tab \in Tabs : SetActiveTab(tab)
    \/ \E edit \in SubmitEdits : FormChange(edit[1], edit[2])
    \/ handleSubmit

SpecSubmit == InitLifecycle /\ [][NextSubmit]_vars

(***************************************************************************)
(* The extraction runs: the form is filled in by hand and from captures.   *)
(***************************************************************************)
ExtractionEdits ==
    { <<"name", "Lait">>, <<"lotNumber", "L1">>, <<"receptionTemp", <<2>>>>,
      <<"receptionDate", <<1>>>> }

NextExtraction ==
    \/ \E tab \in {"inventory", "reception"} : SetActiveTab(tab)
    \/ \E edit \in ExtractionEdits : FormChange(edit[1], edit[2])
    \/ \E hasFile \in BOOLEAN : handleFileChange(hasFile, "imgA")
    \/ \E i \in 1..MaxCaptures, ok \in BOOLEAN : ReaderLoadEnd(i, ok)
    \/ \E i \in 1..MaxCaptures, outcome \in Outcomes : ExtractionResponse(i, outcome)

SpecExtraction == InitLifecycle /\ [][NextExtraction]_vars

(***************************************************************************)
(* The startup runs: the page is opened on a store left by another run or  *)
(* written by something else, items are stocked and handled, and the page  *)
(* is closed and opened again.                                             *)
(***************************************************************************)
StoredSettings == [expiryThresholdDays |-> 1, enableBrowserNotifications |-> TRUE]

InitStartup ==
    /\ items = <<>>
    /\ activeTab = "inventory"
    /\ isProcessing = FALSE
    /\ settings = DefaultSettings
    /\ storage \in [items : {NullBlob, GarbageBlob},
                     settings : {NullBlob, GarbageBlob, Blob(StoredSettings)}]
    /\ formData = NoForm
    /\ tempImage = Undefined
    /\ captures = <<>>
    /\ now = 0
    /\ tz \in Zones
    /\ tz.name = "west"
    /\ nextId = 1
    /\ searchTerm = ""
    /\ urgentItems = <<>>
    /\ permission \in {"default", "granted", "denied"}
    /\ boot = "mounting"
    /\ last = NoArg

NextStartup ==
    \/ MountEffects
    \/ MountRender
    \/ Restart
    \/ Running /\ AddSubmitted(LifecycleForms)
    \/ Running /\ \E id \in 1..MaxItems, s \in Statuses : updateItemStatus(id, s)
    \/ Running /\ \E id \in 1..MaxItems : restoreItem(id)
    \/ Running /\ \E id \in 1..MaxItems, confirmed \in BOOLEAN : deleteItem(id, confirmed)
    \/ \E answer \in {"default", "granted", "denied"} : AnswerPermission(answer)

SpecStartup == InitStartup /\ [][NextStartup]_vars

(***************************************************************************)
(* The collection runs: items are stocked, handled and deleted, and the    *)
(* settings are changed, with the clock standing still.                    *)
(***************************************************************************)
NextCollection ==
    \/ AddSubmitted(LifecycleForms)
    \/ \E id \in 1..MaxItems, s \in Statuses : updateItemStatus(id, s)
    \/ \E id \in 1..MaxItems : restoreItem(id)
    \/ \E id \in 1..MaxItems, confirmed \in BOOLEAN : deleteItem(id, confirmed)
    \/ SetActiveTab("settings")
    \/ SetThreshold(<<0>>)
    \/ ToggleNotifications

SpecCollection == InitLifecycle /\ [][NextCollection]_vars

(***************************************************************************)
(* The remount runs: items are stocked and opened, the notifications are   *)
(* switched on and off, and the page is closed and opened again by a build *)
(* whose root may run the effects of the first render twice.               *)
(***************************************************************************)
NextRemount ==
    \/ MountEffects
    \/ MountEffectsAgain
    \/ MountRender
    \/ Restart
    \/ Running /\ AddSubmitted(LifecycleForms)
    \/ Running /\ \E id \in 1..MaxItems : updateItemStatus(id, "opened")
    \/ Running /\ SetActiveTab("settings")
    \/ Running /\ ToggleNotifications

SpecRemount == InitLifecycle /\ [][NextRemount]_vars

(***************************************************************************)
(* The alert runs: the page is used on some day at noon UTC, items with    *)
(* any expiry date are stocked, and the notifications are switched on and  *)
(* off and allowed or not.                                                 *)
(***************************************************************************)
InitAlerts ==
    /\ now \in {HoursPerDay * d + 12 : d \in Days}
    /\ tz \in Zones
    /\ items = <<>>
    /\ activeTab = "inventory"
    /\ isProcessing = FALSE
    /\ settings = DefaultSettings
    /\ storage = [items |-> Blob(Stringify(items)), settings |-> Blob(settings)]
    /\ formData = NoForm
    /\ tempImage = Undefined
    /\ captures = <<>>
    /\ nextId = 1
    /\ searchTerm = ""
    /\ urgentItems = <<>>
    /\ permission \in {"default", "granted", "denied"}
    /\ boot = "running"
    /\ last = NoArg

NextAlerts ==
    \/ AddSubmitted(ClassifierForms)
    \/ SetActiveTab("settings")
    \/ ToggleNotifications
    \/ \E answer \in {"default", "granted", "denied"} : AnswerPermission(answer)

SpecAlerts == InitAlerts /\ [][NextAlerts]_vars

(***************************************************************************)
(* The deletion runs: items are stocked, taken out of stock, restored and  *)
(* deleted, the threshold and the clock change, and the page is closed and *)
(* opened again.                                                           *)
(***************************************************************************)
NextDeletion ==
    \/ MountEffects
    \/ MountRender
    \/ Restart
    \/ Running /\ AddSubmitted(LifecycleForms)
    \/ Running /\ \E id \in 1..MaxItems, s \in {"finished", "discarded"} :
                     updateItemStatus(id, s)
    \/ Running /\ \E id \in 1..MaxItems : restoreItem(id)
    \/ Running /\ \E id \in 1..MaxItems, confirmed \in BOOLEAN : deleteItem(id, confirmed)
    \/ Running /\ SetActiveTab("settings")
    \/ Running /\ SetThreshold(<<0>>)
    \/ Tick(MaxOpTime)

SpecDeletion == InitLifecycle /\ [][NextDeletion]_vars

(***************************************************************************)
(* The view runs: items are stocked and then handled only through what the *)
(* inventory and the history views render for them.                        *)
(***************************************************************************)
ViewForms ==
    {[InitialForm EXCEPT !.name = "Lait", !.expiryDate = <<d>>] : d \in {0, MaxDay}}

NextViews ==
    \/ AddSubmitted(ViewForms)
    \/ \E tab \in {"inventory", "history"} : SetActiveTab(tab)
    \/ \E term \in SearchTerms : SetSearchTerm(term)
    \/ \E i \in 1..MaxItems, s \in Statuses : InventoryPress(i, s)
    \/ \E i \in 1..MaxItems : HistoryRestore(i)
    \/ \E i \in 1..MaxItems, confirmed \in BOOLEAN : HistoryDelete(i, confirmed)

SpecViews == InitLifecycle /\ [][NextViews]_vars

(***************************************************************************)
(* The whole program.                                                      *)
(***************************************************************************)
Next ==
    \/ MountEffects
    \/ MountEffectsAgain
    \/ MountRender
    \/ Restart
    \/ Running /\ \E tab \in Tabs : SetActiveTab(tab)
    \/ Running /\ \E field \in FormFields, edit \in SubmitEdits \cup ExtractionEdits :
                     edit[1] = field /\ FormChange(field, edit[2])
    \/ Running /\ handleSubmit
    \/ Running /\ \E hasFile \in BOOLEAN, img \in Images : handleFileChange(hasFile, img)
    \/ Running /\ \E i \in 1..MaxCaptures, ok \in BOOLEAN : ReaderLoadEnd(i, ok)
    \/ Running /\ \E i \in 1..MaxCaptures, outcome \in Outcomes :
                     ExtractionResponse(i, outcome)
    \/ Running /\ \E term \in SearchTerms : SetSearchTerm(term)
    \/ Running /\ \E i \in 1..MaxItems, s \in Statuses : InventoryPress(i, s)
    \/ Running /\ \E i \in 1..MaxItems : HistoryRestore(i)
    \/ Running /\ \E i \in 1..MaxItems, confirmed \in BOOLEAN : HistoryDelete(i, confirmed)
    \/ Running /\ \E text \in ThresholdInputs : SetThreshold(text)
    \/ Running /\ ToggleNotifications
    \/ \E answer \in {"default", "granted", "denied"} : AnswerPermission(answer)
    \/ Tick(HoursPerDay * MaxDay + HoursPerDay - 1)

Spec == Init /\ [][Next]_vars

(***************************************************************************)
(* Claims.                                                                 *)
(***************************************************************************)
Done == {"finished", "discarded"}

\* C1: after any sequence of updateItemStatus and restoreItem calls on an item
\* created sealed, finishedAt is present iff the status is finished or discarded.
C1_FinishedAtIffDone ==
    \A i \in 1..Len(items) :
        (items[i].finishedAt # Undefined) <=> (items[i].status \in Done)

\* C2: restoreItem on a finished or discarded item yields opened when openedAt is
\* set and sealed when it is not, clears finishedAt and leaves openedAt as it was.
C2_RestoreRecoversStatus ==
    [][\A i \in 1..Len(items) :
          (last'.op = "restoreItem" /\ last'.id = items[i].id /\ items[i].status \in Done)
          => /\ Len(items') = Len(items)
             /\ items'[i].status = (IF items[i].openedAt # Undefined THEN "opened" ELSE "sealed")
             /\ items'[i].finishedAt = Undefined
             /\ items'[i].openedAt = items[i].openedAt]_vars

\* C2 witness: a finished item that had been opened has just been restored to opened.
C2_Witness ==
    /\ last.op = "restoreItem"
    /\ last.was = "finished"
    /\ \E i \in 1..Len(items) :
          /\ items[i].id = last.id
          /\ items[i].status = "opened"
          /\ items[i].openedAt # Undefined
          /\ items[i].finishedAt = Undefined

\* C3: updateItemStatus sets openedAt to the current time for opened, clears it for
\* sealed and leaves it alone for finished and discarded; restoreItem leaves it
\* alone too, so an openedAt set before finishing is still there after a restore.
C3_OpenedAtPerTransition ==
    [][\A i \in 1..Len(items) :
          /\ (last'.op = "updateItemStatus" /\ last'.id = items[i].id)
             => /\ Len(items') = Len(items)
                /\ last'.arg = "opened" => items'[i].openedAt = ToISOString(now)
                /\ last'.arg = "sealed" => items'[i].openedAt = Undefined
                /\ last'.arg \in Done => items'[i].openedAt = items[i].openedAt
          /\ (last'.op = "restoreItem" /\ last'.id = items[i].id)
             => items'[i].openedAt = items[i].openedAt]_vars

\* C3 witness: an item opened at an earlier hour has just been discarded and still
\* carries the hour it was opened at.
C3_Witness ==
    /\ last.op = "updateItemStatus"
    /\ last.arg = "discarded"
    /\ last.was = "opened"
    /\ \E i \in 1..Len(items) :
          /\ items[i].id = last.id
          /\ items[i].openedAt # Undefined
          /\ items[i].openedAt # ToISOString(now)
          /\ items[i].finishedAt = ToISOString(now)

\* The calendar day it is on the device.
Today == LocalDay(tz, now)

\* The calendar day an expiry date string names.
ExpiryDay(item) == item.expiryDate[1]

\* C4: with both dates taken at day granularity, isExpired holds iff the expiry day
\* is before today, isUrgent iff 0 <= expiry day - today <= threshold, and the two
\* never hold together.
C4_ClassifierByCalendarDay ==
    \A i \in 1..Len(items) :
        LET e == items[i].expiryDate
            d == ExpiryDay(items[i]) - Today
            th == settings.expiryThresholdDays
        IN  /\ isExpired(e, now) <=> d < 0
            /\ isUrgent(e, th, now) <=> (0 <= d /\ d <= th)
            /\ ~(isExpired(e, now) /\ isUrgent(e, th, now))

\* C5: an item whose expiry date is the current local day is urgent and not expired,
\* at every time of day and for every threshold >= 0.
C5_ExpiringTodayIsUrgent ==
    \A i \in 1..Len(items) :
        (ExpiryDay(items[i]) = Today /\ settings.expiryThresholdDays >= 0)
        => /\ ~isExpired(items[i].expiryDate, now)
           /\ isUrgent(items[i].expiryDate, settings.expiryThresholdDays, now)

C7_MonotonicInCurrentDate ==
    \A i \in 1..Len(items) : \A t \in 0..now :
        /\ Classify(items[i], now) = "normal" => Classify(items[i], t) # "expired"
        /\ Classify(items[i], t) = "expired" => Classify(items[i], now) = "expired"

\* C7 witness: an item that was normal at hour 0 and urgent later is now expired.
C7_Witness ==
    \E i \in 1..Len(items) :
        /\ Classify(items[i], 0) = "normal"
        /\ \E t \in 0..now : Classify(items[i], t) = "urgent"
        /\ Classify(items[i], now) = "expired"

\* C8: handleSubmit with an empty name or an empty expiryDate is rejected: addItem
\* is not called, the collection and the store are unchanged, and the active tab
\* stays.
C8_InvalidSubmitRejected ==
    [][(last'.op = "handleSubmit" /\ (formData.name = "" \/ formData.expiryDate = EmptyString))
       => /\ last'.arg = "rejected"
          /\ items' = items
          /\ storage' = storage
          /\ activeTab' = activeTab
          /\ nextId' = nextId]_vars

\* C8 witness: a form with a name and no expiry date has just been submitted and
\* turned down, with an item already in stock.
C8_Witness ==
    /\ last.op = "handleSubmit"
    /\ last.arg = "rejected"
    /\ formData.name # ""
    /\ formData.expiryDate = EmptyString
    /\ activeTab = "reception"
    /\ Len(items) > 0
    /\ storage.items = Blob(Stringify(items))

\* C9: when the adapter returns a record with only some of name, category,
\* lotNumber, expiryDate populated, the form of the view that started the capture
\* takes the populated fields and keeps every other field as it was.
C9_PartialResultFillsOnlyPopulated ==
    [][(last'.op = "extractionResponse" /\ last'.res # <<>> /\ last'.id = 1)
       => LET result == last'.res[1]
          IN  /\ formData'.name = (IF result.name # "" THEN result.name ELSE formData.name)
              /\ formData'.category =
                    (IF result.category # "" THEN result.category ELSE formData.category)
              /\ formData'.lotNumber =
                    (IF result.lotNumber # "" THEN result.lotNumber ELSE formData.lotNumber)
              /\ formData'.expiryDate =
                    (IF result.expiryDate # EmptyString THEN result.expiryDate
                     ELSE formData.expiryDate)
              /\ formData'.receptionDate = formData.receptionDate
              /\ formData'.receptionTemp = formData.receptionTemp]_vars

\* C9 witness: a result with only the name "Yaourt" has arrived on a form in which
\* the lot, the temperature and the reception date had been entered by hand.
C9_Witness ==
    /\ last.op = "extractionResponse"
    /\ last.id = 1
    /\ last.res = <<[name |-> "Yaourt", category |-> "", lotNumber |-> "",
                     expiryDate |-> EmptyString]>>
    /\ formData.name = "Yaourt"
    /\ formData.category = "Autres"
    /\ formData.lotNumber = "L1"
    /\ formData.receptionTemp = <<2>>
    /\ formData.receptionDate = <<1>>

\* C10: extractProductInfo never fails towards its caller: on a network error, a
\* service error, an empty response or an unparsable one it returns null, and
\* handleFileChange then leaves the form as it was.
C10_FailureGivesNull ==
    [][/\ last'.op # "extractionRejected"
       /\ (last'.op = "extractionResponse" /\ last'.arg \in FailureKinds)
          => (last'.res = <<>> /\ formData' = formData)]_vars

\* C10 witness: an extraction has just failed on a network error under a form
\* filled in by hand, which is still as entered.
C10_Witness ==
    /\ last.op = "extractionResponse"
    /\ last.arg = "networkError"
    /\ last.id = 1
    /\ last.res = <<>>
    /\ formData.name = "Lait"
    /\ formData.lotNumber = "L1"
    /\ ~isProcessing

\* C11: a stored blob that cannot be read or parsed at startup does not abort the
\* startup: the page comes up with no items and the default settings.
C11_ParseFailureFallsBack ==
    (last.op = "mountEffects" /\ LoadThrows)
    => (boot = "loaded" /\ items = <<>> /\ settings = DefaultSettings)

ItemMutations == {"addItem", "updateItemStatus", "restoreItem", "deleteItem"}
SettingsChanges == {"setThreshold", "toggleNotifications"}

\* C12: after every addItem, updateItemStatus, restoreItem and confirmed deleteItem
\* the blob under the items key is the serialization of the collection in memory,
\* and after every change of the settings the blob under the settings key is the
\* serialization of the settings; a write under one key leaves the other key alone.
C12_StoreFollowsState ==
    [][/\ storage'.items = Blob(Stringify(items'))
       /\ storage'.settings = Blob(settings')
       /\ last'.op \in ItemMutations => storage'.settings = storage.settings
       /\ last'.op \in SettingsChanges => storage'.items = storage.items]_vars

\* C12 witness: one of two items, handled before, has just been deleted after the
\* threshold and the notification switch were changed, and the store holds both
\* the item that is left and the new settings.
C12_Witness ==
    /\ last.op = "deleteItem"
    /\ last.arg = "confirmed"
    /\ Len(items) = 1
    /\ items[1].status = "opened"
    /\ settings = [expiryThresholdDays |-> 0, enableBrowserNotifications |-> TRUE]
    /\ storage = [items |-> Blob(Stringify(items)), settings |-> Blob(settings)]

\* C13: a collection that was in memory and saved when the page was closed is the
\* collection in memory after the next start: the same items in the same order,
\* each with the same id, status and fields, with openedAt and finishedAt present
\* on exactly the items that had them.
C13_ReloadReproducesCollection ==
    (last.op \in {"mountEffects", "mountRender"} /\ last.arg = "running"
       /\ boot \in {"loaded", "running"})
    => items = last.res[1]

\* C13 witness: the page has started again on a stored collection of an opened
\* item (openedAt, no finishedAt) and a discarded item that was never opened.
C13_Witness ==
    /\ last.op = "mountRender"
    /\ last.arg = "running"
    /\ boot = "running"
    /\ Len(items) = 2
    /\ items = last.res[1]
    /\ \E i, j \in 1..2 :
          /\ items[i].status = "opened"
          /\ items[i].openedAt # Undefined
          /\ items[i].finishedAt = Undefined
          /\ items[j].status = "discarded"
          /\ items[j].openedAt = Undefined
          /\ items[j].finishedAt # Undefined

\* C14: the busy indicator is on for as long as an extraction started by
\* handleFileChange is awaiting its response, also when a second capture was
\* started before the first response came, and it is off once no capture is
\* pending after a response.
C14_BusyWhileExtracting ==
    /\ (\E i \in 1..Len(captures) : captures[i].stage = "extracting") => isProcessing
    /\ (last.op = "extractionResponse" /\ captures = <<>>) => ~isProcessing

\* C15: when two captures overlap, the last response wins: after both responses
\* were applied, name, category, lotNumber and expiryDate of the form are those the
\* response that arrived last gives when applied to the values the user had in
\* the form, whatever the earlier response held.
C15_LastResponseWins ==
    [][(/\ last.op = "extractionResponse" /\ last.id = 1
        /\ last'.op = "extractionResponse" /\ last'.id = 1 /\ last'.res # <<>>)
       => LET user == last.form
              result == last'.res[1]
          IN  /\ formData'.name = (IF result.name # "" THEN result.name ELSE user.name)
              /\ formData'.category =
                    (IF result.category # "" THEN result.category ELSE user.category)
              /\ formData'.lotNumber =
                    (IF result.lotNumber # "" THEN result.lotNumber ELSE user.lotNumber)
              /\ formData'.expiryDate =
                    (IF result.expiryDate # EmptyString THEN result.expiryDate
                     ELSE user.expiryDate)]_vars

\* The items in stock that the classifier marks expired or urgent at the clock.
NeedingAttention ==
    SelectSeq(items, LAMBDA item :
        /\ item.status \notin Done
        /\ \/ isExpired(item.expiryDate, now)
           \/ isUrgent(item.expiryDate, settings.expiryThresholdDays, now))

\* C16: the count on the alert badge, taken when it has just been computed, is the
\* number of sealed and opened items that isExpired or isUrgent marks for the
\* current threshold, at every time of day; finished and discarded items are not
\* counted.
C16_BadgeCountsClassified ==
    last.op # "tick"
    => /\ Len(urgentItems) = Len(NeedingAttention)
       /\ \A i \in 1..Len(urgentItems) : urgentItems[i].status \notin Done

\* C17: a notification is raised only while the notifications are enabled and the
\* permission is granted, and the count it reports is the number of items in
\* stock that are expired or within the threshold, the count of the alert badge.
C17_NotificationCountsBadge ==
    last.notice # <<>>
    => /\ settings.enableBrowserNotifications
       /\ permission = "granted"
       /\ last.notice[1] = Len(urgentItems)

LifecycleKeys == {"status", "openedAt", "finishedAt"}

\* C19: updateItemStatus and restoreItem change only the item with the given id
\* and, of that item, only status, openedAt and finishedAt; every other field,
\* every other item, and the number and the order of the items stay, and a call
\* with an id that no item has changes nothing in the collection or in the store.
C19_OnlyLifecycleFieldsChange ==
    [][last'.op \in {"updateItemStatus", "restoreItem"}
       => /\ Len(items') = Len(items)
          /\ \A i \in 1..Len(items) :
                /\ \A k \in ItemKeys \ LifecycleKeys : items'[i][k] = items[i][k]
                /\ items[i].id # last'.id => items'[i] = items[i]
          /\ (\A i \in 1..Len(items) : items[i].id # last'.id)
             => (items' = items /\ storage' = storage)]_vars

\* C19 witness: the first of two items has just been opened; the second, which was
\* finished at an earlier hour, is as it was.
C19_Witness ==
    /\ last.op = "updateItemStatus"
    /\ last.arg = "opened"
    /\ Len(items) = 2
    /\ items[1].id = last.id
    /\ items[1].status = "opened"
    /\ items[1].openedAt = ToISOString(now)
    /\ items[2].status = "finished"
    /\ items[2].finishedAt # ToISOString(now)

\* The transitions of the lifecycle table that updateItemStatus serves.
TableTransitions ==
    { <<"sealed", "opened">>, <<"sealed", "discarded">>,
      <<"opened", "finished">>, <<"opened", "sealed">>, <<"opened", "discarded">> }

\* C20: the views offer only the transitions of the lifecycle table: for a sealed
\* item open and discard, for an opened item finish, reseal and discard, and for a
\* finished or discarded item restore; never finished for a sealed item, nor any
\* updateItemStatus for a finished or discarded one.
C20_ViewsOfferTableOnly ==
    /\ last.op = "updateItemStatus" => <<last.was, last.arg>> \in TableTransitions
    /\ last.op = "restoreItem" => last.was \in Done

\* C20 witness: with the search field narrowing the inventory and another item in
\* the history, an opened item has just been resealed from its card.
C20_Witness ==
    /\ last.op = "updateItemStatus"
    /\ last.was = "opened"
    /\ last.arg = "sealed"
    /\ searchTerm = "LAI"
    /\ Len(filteredItems) = 1
    /\ filteredItems[1].id = last.id
    /\ filteredItems[1].status = "sealed"
    /\ Len(historyItems) = 1

\* C21: in every state reached from items that handleSubmit created through what
\* the views offer, a sealed item has no openedAt and an opened item has one, and
\* restoreItem returns a finished or discarded item to the status it had just
\* before it was finished or discarded.
C21_RestoreReturnsPriorStatus ==
    [][/\ \A i \in 1..Len(items') :
             /\ items'[i].status = "sealed" => items'[i].openedAt = Undefined
             /\ items'[i].status = "opened" => items'[i].openedAt # Undefined
       /\ (last'.op = "restoreItem" /\ last'.was \in Done)
          => \A i \in 1..Len(items') :
                items'[i].id = last'.id => items'[i].status = last.before[last'.id]]_vars

\* C21 witness: an item that was opened and then discarded has just been restored
\* to opened, still with its openedAt, next to an item that is sealed.
C21_Witness ==
    /\ last.op = "restoreItem"
    /\ last.was = "discarded"
    /\ Len(items) = 2
    /\ \E i, j \in 1..2 :
          /\ items[i].id = last.id
          /\ items[i].status = "opened"
          /\ items[i].openedAt # Undefined
          /\ items[j].status = "sealed"
          /\ items[j].openedAt = Undefined


\* C22: starting on a non-empty stored collection never loses it: however many
\* times the load effect runs at startup, once the startup effects and the render
\* they trigger are done, the collection in memory and the stored blob are the
\* collection that was stored before the start, and likewise for the settings.
C22_StartupKeepsStore ==
    (last.op = "mountRender" /\ last.arg = "running" /\ Len(last.res[1]) > 0)
    => /\ items = last.res[1]
       /\ storage.items = Blob(Stringify(last.res[1]))
       /\ settings = last.res[2]
       /\ storage.settings = Blob(last.res[2])

====
